---- MODULE Spec2Model ----
(***************************************************************************)
(* A model of funko_dash.py: the cached loader load_data (lines 5-54) and  *)
(* the dashboard script around it (lines 56-179).                          *)
(*                                                                         *)
(* Cell texts of the CSV file are sequences of one-character strings, so   *)
(* that the coercions (date parsing, currency stripping, numeric parsing)  *)
(* are computed from the characters.  A nullable value (NaN, NaT, None) is *)
(* the empty tuple and a present value v is the one-element tuple <<v>>.   *)
(* Prices and sales volumes (floats in the code) are kept as integers      *)
(* scaled by 10^PricePlaces and 10^VolumePlaces; Market Capitalization is  *)
(* their product, at the scale of a price.                                 *)
(***************************************************************************)
EXTENDS Integers, Sequences, FiniteSets, TLC

VARIABLES
    file,            \* contents of funko_data.csv on disk
    cache,           \* st.cache_data's memo of load_data, keyed by file_path
    outcome,         \* where the last run of the script ended
    messages,        \* st.error / st.warning / st.info calls of the last run
    loaded,          \* (df, error) as returned by load_data in the last run
    selected_years,  \* value of the release-year slider, unbound = NaN
    selected_price,  \* value of the price slider, unbound = NaN
    selected_volume, \* value of the sales-volume slider, unbound = NaN
    filtered_df,     \* filtered_df of the last run
    category_counts, \* category_counts of the last run
    top_market_cap,  \* top_market_cap of the last run
    top_sales_volume,\* top_sales_volume of the last run
    top_price        \* top_price of the last run

vars == <<file, cache, outcome, messages, loaded, selected_years,
          selected_price, selected_volume, filtered_df, category_counts,
          top_market_cap, top_sales_volume, top_price>>

-----------------------------------------------------------------------------
(* Nullable values *)

NaN == <<>>

IsNa(x) == x = <<>>

Min(a, b) == IF a <= b THEN a ELSE b

-----------------------------------------------------------------------------
(* Characters and numeric coercion *)

Digits == {"0", "1", "2", "3", "4", "5", "6", "7", "8", "9"}

DigitVal(c) ==
    CASE c = "0" -> 0 [] c = "1" -> 1 [] c = "2" -> 2 [] c = "3" -> 3
      [] c = "4" -> 4 [] c = "5" -> 5 [] c = "6" -> 6 [] c = "7" -> 7
      [] c = "8" -> 8 [] c = "9" -> 9

IsDigits(s) == Len(s) > 0 /\ \A i \in 1..Len(s) : s[i] \in Digits

RECURSIVE NatVal(_)
NatVal(s) ==
    IF Len(s) = 0 THEN 0
    ELSE 10 * NatVal(SubSeq(s, 1, Len(s) - 1)) + DigitVal(s[Len(s)])

RECURSIVE Pow10(_)
Pow10(n) == IF n = 0 THEN 1 ELSE 10 * Pow10(n - 1)

\* The position of the first occurrence of character c in s, 0 when absent.
IndexOf(s, c) ==
    IF \E i \in 1..Len(s) : s[i] = c
    THEN CHOOSE i \in 1..Len(s) : s[i] = c /\ \A j \in 1..(i - 1) : s[j] # c
    ELSE 0

\* pd.to_numeric(..., errors='coerce') on one cell, for the decimal literals
\* [+-]?digits[.digits] with at most `places` fractional digits; the value is
\* scaled by 10^places.  An empty cell (read_csv gives NaN) and any other
\* text are coerced to NaN.
to_numeric(s, places) ==
    LET signed == Len(s) > 0 /\ s[1] \in {"-", "+"}
        body == IF signed THEN SubSeq(s, 2, Len(s)) ELSE s
        dot == IndexOf(body, ".")
        whole == IF dot = 0 THEN body ELSE SubSeq(body, 1, dot - 1)
        frac == IF dot = 0 THEN <<>> ELSE SubSeq(body, dot + 1, Len(body))
        ok == /\ IsDigits(whole) \/ (whole = <<>> /\ frac # <<>>)
              /\ Len(frac) <= places
              /\ \A i \in 1..Len(frac) : frac[i] \in Digits
        mag == NatVal(whole) * Pow10(places)
               + NatVal(frac) * Pow10(places - Len(frac))
    IN  IF ~ok THEN NaN
        ELSE IF signed /\ s[1] = "-" THEN <<0 - mag>> ELSE <<mag>>

\* Series.replace('[\$,]', '', regex=True) on one cell: every "$" and ","
\* is removed.
StripCurrency(s) == SelectSeq(s, LAMBDA c : c \notin {"$", ","})

\* Fractional digits kept of a price and of a sales volume.
PricePlaces == 2

VolumePlaces == 0

VolumeUnit == Pow10(VolumePlaces)

-----------------------------------------------------------------------------
(* Date coercion *)

IsLeap(y) == (y % 4 = 0 /\ y % 100 # 0) \/ y % 400 = 0

DaysIn(y, m) ==
    IF m = 2 THEN (IF IsLeap(y) THEN 29 ELSE 28)
    ELSE IF m \in {4, 6, 9, 11} THEN 30 ELSE 31

\* pd.to_datetime(..., format='%Y-%m-%d', errors='coerce') on one cell: four
\* digits, "-", one or two digits of a month, "-", one or two digits of a day
\* of that month, in a year whose every day fits a nanosecond Timestamp
\* (1678..2261); anything else is NaT.  The value is <<year, month, day>>.
to_datetime(s) ==
    LET d1 == IndexOf(s, "-")
        rest == IF d1 = 0 THEN <<>> ELSE SubSeq(s, d1 + 1, Len(s))
        d2 == IndexOf(rest, "-")
        ys == IF d1 = 0 THEN <<>> ELSE SubSeq(s, 1, d1 - 1)
        ms == IF d2 = 0 THEN <<>> ELSE SubSeq(rest, 1, d2 - 1)
        ds == IF d2 = 0 THEN <<>> ELSE SubSeq(rest, d2 + 1, Len(rest))
        shape == /\ d1 # 0 /\ d2 # 0
                 /\ Len(ys) = 4 /\ IsDigits(ys)
                 /\ Len(ms) \in {1, 2} /\ IsDigits(ms)
                 /\ Len(ds) \in {1, 2} /\ IsDigits(ds)
        y == NatVal(ys)
        m == NatVal(ms)
        d == NatVal(ds)
    IN  IF /\ shape
           /\ y \in 1678..2261
           /\ m \in 1..12
           /\ d \in 1..DaysIn(y, m)
        THEN << <<y, m, d>> >>
        ELSE NaN

\* Series.dt.year on one cell: NaT gives NaN.
dt_year(date) == IF IsNa(date) THEN NaN ELSE <<date[1][1]>>

-----------------------------------------------------------------------------
(* The CSV file *)

\* A file is [kind, header, rows]: kind "missing" (no such path), "empty"
\* (size 0), "unparsable" (pd.read_csv raises) or "csv"; header is the set
\* of column names and each row maps every column name to its cell text.
\* The product-name column is only ever displayed and is left out.

NoFile == [kind |-> "missing", header |-> {}, rows |-> <<>>]

EmptyFile == [kind |-> "empty", header |-> {}, rows |-> <<>>]

UnparsableFile == [kind |-> "unparsable", header |-> {}, rows |-> <<>>]

CsvFile(header, rows) == [kind |-> "csv", header |-> header, rows |-> rows]

\* df.rename(columns={...}) on one column name.
RenameColumn(c) ==
    CASE c = "console-name" -> "Funko Category"
      [] c = "new-price" -> "Avg. eBay Sell Price"
      [] c = "sales-volume" -> "Sales Volume"
      [] c = "release-date" -> "Release Date"
      [] OTHER -> c

\* The raw columns that carry the name `name` after the renaming.
ColumnsNamed(header, name) == {c \in header : RenameColumn(c) = name}

\* df[name] on one row, for a name carried by exactly one column.
Cell(header, row, name) == row[CHOOSE c \in header : RenameColumn(c) = name]

-----------------------------------------------------------------------------
(* load_data *)

\* The tuple load_data returns: (df, None) or (None, error message).
Loaded(df) == [df |-> <<df>>, error |-> NaN]

\* An error message returned together with an (empty) frame.
FailedWithFrame(msg) == [df |-> << <<>> >>, error |-> <<msg>>]

Failed(msg) == [df |-> NaN, error |-> <<msg>>]

\* The year kept from the file's own Release Year column when it has one.
ReleaseYearFromFile(header, row, date) ==
    IF "Release Year" \in header
    THEN to_numeric(row["Release Year"], 0)
    ELSE dt_year(date)

\* df["Release Year"] = df["Release Date"].dt.year on one row: the column is
\* assigned, whatever the file held under that name.
ReleaseYear(header, row, date) == dt_year(date)

\* df["Sales Volume"] * df["Avg. eBay Sell Price"] on one row.
MarketCapitalization(volume, price) ==
    IF IsNa(volume) \/ IsNa(price) THEN NaN
    ELSE <<(volume[1] * price[1]) \div VolumeUnit>>

\* One row of df after the coercions of lines 36-47; Index is the row's
\* label, its position in the file (counted from 1 here).
NormalizedRow(header, rows, i) ==
    LET row == rows[i]
        date == to_datetime(Cell(header, row, "Release Date"))
        price == to_numeric(
                     StripCurrency(Cell(header, row, "Avg. eBay Sell Price")),
                     PricePlaces)
        volume == to_numeric(Cell(header, row, "Sales Volume"), VolumePlaces)
    IN  [Index |-> i,
         Funko_Category |-> Cell(header, row, "Funko Category"),
         Release_Date |-> date,
         Release_Year |-> ReleaseYear(header, row, date),
         Avg_eBay_Sell_Price |-> price,
         Sales_Volume |-> volume,
         Market_Capitalization |-> MarketCapitalization(volume, price)]

\* The mask with >= in place of >.
BaselineMaskAtLeastOne(r) ==
    ~IsNa(r.Sales_Volume) /\ r.Sales_Volume[1] >= 1 * VolumeUnit

\* The mask df["Sales Volume"] > 1 on one row: a comparison with NaN is False.
BaselineMask(r) ==
    ~IsNa(r.Sales_Volume) /\ r.Sales_Volume[1] > 1 * VolumeUnit

\* The body of load_data (lines 18-54) on the file's contents.  A column
\* that is looked up and absent raises KeyError; a name carried by two
\* columns selects a DataFrame, which to_datetime and to_numeric reject; the
\* except clause turns each exception into (None, str(e)).
load_data_body(f) ==
    IF f.kind # "csv" THEN Failed("Error tokenizing data")
    ELSE IF ColumnsNamed(f.header, "Avg. eBay Sell Price") = {}
    THEN Failed("Column renaming failed")
    ELSE IF ColumnsNamed(f.header, "Release Date") = {}
    THEN Failed("'Release Date'")
    ELSE IF Cardinality(ColumnsNamed(f.header, "Release Date")) > 1
    THEN Failed("to assemble mappings requires at least that [year, month, day] be specified")
    ELSE IF Cardinality(ColumnsNamed(f.header, "Avg. eBay Sell Price")) > 1
    THEN Failed("arg must be a list, tuple, 1-d array, or Series")
    ELSE IF ColumnsNamed(f.header, "Sales Volume") = {}
    THEN Failed("'Sales Volume'")
    ELSE IF Cardinality(ColumnsNamed(f.header, "Sales Volume")) > 1
    THEN Failed("arg must be a list, tuple, 1-d array, or Series")
    ELSE Loaded(SelectSeq(
             [i \in 1..Len(f.rows) |-> NormalizedRow(f.header, f.rows, i)],
             BaselineMask))

\* @st.cache_data (line 5): the memo is keyed by the argument, the path,
\* which never changes; a hit returns the stored tuple without running the
\* body, a miss runs the body on the file as it is now.
load_data(f, memo) == IF memo # <<>> THEN memo[1] ELSE load_data_body(f)

-----------------------------------------------------------------------------
(* Filters and ranking views *)

\* between with inclusive='neither'.
between_exclusive(x, left, right) == ~IsNa(x) /\ left < x[1] /\ x[1] < right

\* between with its bounds taken in the wrong order.
between_reversed(x, left, right) ==
    ~IsNa(x) /\ right <= x[1] /\ x[1] <= left

\* Series.between(left, right, inclusive='both') on one cell: NaN is False.
between(x, left, right) == ~IsNa(x) /\ left <= x[1] /\ x[1] <= right

\* The boolean mask of lines 139-141 on one row.
FilterMask(r, years, price, volume) ==
    /\ between(r.Release_Year, years[1], years[2])
    /\ between(r.Avg_eBay_Sell_Price, price[1], price[2])
    /\ between(r.Sales_Volume, volume[1], volume[2])

\* filtered_df = df[mask] (lines 138-142).
ApplyFilters(df, years, price, volume) ==
    SelectSeq(df, LAMBDA r : FilterMask(r, years, price, volume))

\* The order of an ascending sort.
StaysAheadAscending(xe, xr) == IsNa(xr) \/ (~IsNa(xe) /\ xe[1] <= xr[1])

\* Whether a row of key xe stays ahead of a later row of key xr in a
\* descending sort: NaN sorts last, equal keys keep their order.
StaysAhead(xe, xr) == IsNa(xr) \/ (~IsNa(xe) /\ xe[1] >= xr[1])

\* The positions of `keys` in descending order of key, NaN last, equal keys
\* in their original order.
RECURSIVE argsort_descending(_)
argsort_descending(keys) ==
    IF Len(keys) = 0 THEN <<>>
    ELSE LET n == Len(keys)
             order == argsort_descending(SubSeq(keys, 1, n - 1))
             k == Cardinality({i \in 1..Len(order) :
                                   StaysAhead(keys[order[i]], keys[n])})
         IN  SubSeq(order, 1, k) \o <<n>> \o SubSeq(order, k + 1, Len(order))

\* df[by] on one row of the normalized frame.
Column(r, by) ==
    CASE by = "Release Date" -> r.Release_Date
      [] by = "Release Year" -> r.Release_Year
      [] by = "Avg. eBay Sell Price" -> r.Avg_eBay_Sell_Price
      [] by = "Sales Volume" -> r.Sales_Volume
      [] by = "Market Capitalization" -> r.Market_Capitalization

\* df.sort_values(by=by, ascending=False).  The default sort kind does not
\* promise the order of rows of equal key; the order kept here is the
\* original one.
sort_values(df, by) ==
    LET order == argsort_descending([i \in 1..Len(df) |-> Column(df[i], by)])
    IN  [i \in 1..Len(df) |-> df[order[i]]]

\* DataFrame.head(n).
head(df, n) == SubSeq(df, 1, Min(n, Len(df)))

\* The length of the three top lists (head(10), lines 154, 161, 168).
TopN == 10

\* Lines 154, 161 and 168.
TopMarketCap(fdf) == head(sort_values(fdf, "Market Capitalization"), TopN)

TopSalesVolume(fdf) == head(sort_values(fdf, "Sales Volume"), TopN)

TopPrice(fdf) == head(sort_values(fdf, "Avg. eBay Sell Price"), TopN)

\* filtered_df["Funko Category"].value_counts() (line 150).
value_counts(fdf) ==
    [c \in {fdf[i].Funko_Category : i \in 1..Len(fdf)} |->
        Cardinality({i \in 1..Len(fdf) : fdf[i].Funko_Category = c})]

-----------------------------------------------------------------------------
(* Diagnostics and sliders *)

\* df[by].dropna() as the set of values present.
dropna(df, by) ==
    {Column(df[i], by)[1] :
        i \in {j \in 1..Len(df) : ~IsNa(Column(df[j], by))}}

\* df[by].isna().all() and df[by].isna().any(); all() of no row is True.
isna_all(df, by) == \A i \in 1..Len(df) : IsNa(Column(df[i], by))

isna_any(df, by) == \E i \in 1..Len(df) : IsNa(Column(df[i], by))

\* The messages of lines 73-84.
Diagnostics(df) ==
    (IF isna_all(df, "Avg. eBay Sell Price") THEN {"error: all prices missing"}
     ELSE IF isna_any(df, "Avg. eBay Sell Price") THEN {"warning: some prices missing"}
     ELSE {})
    \cup
    (IF isna_all(df, "Sales Volume") THEN {"error: all volumes missing"}
     ELSE IF isna_any(df, "Sales Volume") THEN {"warning: some volumes missing"}
     ELSE {})
    \cup
    (IF isna_any(df, "Release Date") THEN {"warning: some dates invalid"}
     ELSE {})

\* The messages of lines 94-95, 109-110 and 124-125.
SliderErrors(df) ==
    (IF dropna(df, "Release Year") = {} THEN {"error: no valid years"} ELSE {})
    \cup
    (IF dropna(df, "Avg. eBay Sell Price") = {} THEN {"error: no valid prices"} ELSE {})
    \cup
    (IF dropna(df, "Sales Volume") = {} THEN {"error: no valid volumes"} ELSE {})

SetMin(S) == CHOOSE x \in S : \A y \in S : x <= y

SetMax(S) == CHOOSE x \in S : \A y \in S : x >= y

\* A name the run never bound.
Unbound == <<>>

\* The values a range slider can return: a pair lo <= hi of its stops, or
\* nothing when the slider is never created.  A slider whose least and
\* greatest stop coincide returns that one pair.
RangeValues(stops) ==
    IF stops = {} THEN {Unbound}
    ELSE {p \in stops \X stops : p[1] <= p[2]}

\* The year slider (lines 93-105) runs over the integers min_year..max_year.
YearValues(df) ==
    LET valid_years == dropna(df, "Release Year")
    IN  RangeValues(IF valid_years = {} THEN {}
                    ELSE SetMin(valid_years)..SetMax(valid_years))

\* The price slider (lines 108-120) and the volume slider (lines 123-135)
\* run from the least to the greatest value present; membership of a row
\* changes only at the values present, which are the stops kept here.
PriceValues(df) == RangeValues(dropna(df, "Avg. eBay Sell Price"))

VolumeValues(df) == RangeValues(dropna(df, "Sales Volume"))

\* The default value of a range slider: (min, max).
SliderDefault(values) ==
    CHOOSE p \in values : \A q \in values : p[1] <= q[1] /\ p[2] >= q[2]

\* What st.sidebar.slider returns when the user has not just moved it: the
\* value it had in the previous run if it was drawn there, else its default.
SliderKept(previous, values) ==
    IF values = {Unbound} THEN Unbound
    ELSE IF previous \in values THEN previous
    ELSE SliderDefault(values)

\* The triples (selected_years, selected_price, selected_volume) a run can
\* see: a run follows the user moving at most one slider.
Selections(df) ==
    LET years == SliderKept(selected_years, YearValues(df))
        price == SliderKept(selected_price, PriceValues(df))
        volume == SliderKept(selected_volume, VolumeValues(df))
    IN  {<<years, price, volume>>}
        \cup {<<y, price, volume>> : y \in YearValues(df)}
        \cup {<<years, p, volume>> : p \in PriceValues(df)}
        \cup {<<years, price, v>> : v \in VolumeValues(df)}

-----------------------------------------------------------------------------
(* The files considered *)

\* Most rows of a file of Files, and the rows of its long files.
MaxRows == 2

BulkLen == 12

FullHeader == {"console-name", "new-price", "sales-volume", "release-date"}

Row(category, price, volume, date) ==
    ("console-name" :> category) @@ ("new-price" :> price)
    @@ ("sales-volume" :> volume) @@ ("release-date" :> date)

RowSamples == <<
    Row("Marvel", <<"1","0">>, <<"5">>,
        <<"2","0","2","0","-","0","1","-","0","1">>),
    Row("DC", <<"$","5","0">>, <<"1">>,
        <<"2","0","1","9","-","0","6","-","1","5">>),
    Row("Marvel", <<"2">>, <<"2","0">>,
        <<"b","a","d","-","d","a","t","e">>),
    Row("DC", <<"7">>, <<>>,
        <<"0","6","/","1","5","/","2","0","1","9">>),
    Row("Marvel", <<"n","/","a">>, <<"3">>,
        <<"2","0","2","1","-","0","2","-","3","0">>),
    Row("DC", <<"$","1",",","2","0","0",".","5">>, <<"2">>,
        <<"2","0","1","9","-","0","6","-","1","5">>),
    Row("Marvel", <<"4">>, <<"8">>,
        <<"2","0","2","1","-","0","3","-","0","4">>) >>

\* Rows of the long files: all pass the baseline exclusion, keys repeat.
BulkSamples == <<
    RowSamples[1],
    RowSamples[6],
    Row("DC", <<"1","0",".","0">>, <<"8">>,
        <<"2","0","2","0","-","1","2","-","3","1">>) >>

\* Every file of at most MaxRows sample rows under the full header.
ShortFiles ==
    {CsvFile(FullHeader, [i \in 1..n |-> RowSamples[pick[i]]]) :
        n \in 0..MaxRows, pick \in [1..MaxRows -> 1..Len(RowSamples)]}

BulkRows(n) == [i \in 1..n |-> BulkSamples[((i - 1) % Len(BulkSamples)) + 1]]

LongFiles ==
    {CsvFile(FullHeader, BulkRows(BulkLen - 1)),
     CsvFile(FullHeader, BulkRows(BulkLen)),
     CsvFile(FullHeader,
             <<RowSamples[3], RowSamples[5]>> \o BulkRows(BulkLen))}

\* The file f with its column `from` (if any) under the name `to`, and with
\* column `to` holding `text` in every row otherwise.
WithColumn(f, from, to, text) ==
    LET header == (f.header \ {from}) \cup {to}
    IN  CsvFile(header,
                [i \in 1..Len(f.rows) |->
                    [c \in header |->
                        IF c # to THEN f.rows[i][c]
                        ELSE IF from \in f.header THEN f.rows[i][from]
                        ELSE text]])

WithoutColumn(f, c) ==
    CsvFile(f.header \ {c},
            [i \in 1..Len(f.rows) |-> [d \in f.header \ {c} |-> f.rows[i][d]]])

\* Files whose header is not the expected one.
OtherHeaderFiles ==
    LET f == CsvFile(FullHeader, <<RowSamples[1], RowSamples[3]>>)
    IN  {WithoutColumn(f, "new-price"),
         WithoutColumn(f, "sales-volume"),
         WithoutColumn(f, "release-date"),
         WithColumn(f, "new-price", "Avg. eBay Sell Price", <<>>),
         WithColumn(f, "absent", "Avg. eBay Sell Price", <<"9">>),
         WithColumn(f, "new-price", "price", <<>>),
         WithColumn(f, "absent", "Release Year", <<"1","9","9","9">>)}

Files ==
    {NoFile, EmptyFile, UnparsableFile}
    \cup ShortFiles \cup LongFiles \cup OtherHeaderFiles

\* The contents the file is later replaced by.
Edits ==
    {NoFile,
     WithoutColumn(CsvFile(FullHeader, <<RowSamples[1]>>), "new-price"),
     CsvFile(FullHeader, <<RowSamples[3], RowSamples[7]>>)}

-----------------------------------------------------------------------------
(* The script: one action per way a run of lines 56-179 ends *)

\* What a run that ends before the filters leaves: nothing is bound.
EndsEarly(how, said, result) ==
    /\ outcome' = how
    /\ messages' = said
    /\ loaded' = result
    /\ selected_years' = Unbound
    /\ selected_price' = Unbound
    /\ selected_volume' = Unbound
    /\ filtered_df' = Unbound
    /\ category_counts' = Unbound
    /\ top_market_cap' = Unbound
    /\ top_sales_volume' = Unbound
    /\ top_price' = Unbound

\* `if error:` (line 67): None and the empty string are falsy.
Truthy(error) == ~IsNa(error) /\ error[1] # ""

\* Lines 60-61: the path does not exist.
RunFileNotFound ==
    /\ file.kind = "missing"
    /\ EndsEarly("file not found", {"error: file not found"}, Unbound)
    /\ UNCHANGED <<file, cache>>

\* Lines 62-63: the file has size 0.
RunFileEmpty ==
    /\ file.kind = "empty"
    /\ EndsEarly("file empty", {"error: file is empty"}, Unbound)
    /\ UNCHANGED <<file, cache>>

\* Lines 66-70: load_data returns an error, or no DataFrame.
RunLoadFails ==
    /\ file.kind \notin {"missing", "empty"}
    /\ LET result == load_data(file, cache)
       IN  /\ Truthy(result.error) \/ IsNa(result.df)
           /\ cache' = <<result>>
           /\ EndsEarly("load failed",
                        (IF Truthy(result.error)
                         THEN {"error: loading or processing data"}
                         ELSE {"error: data loading returned None"})
                        \cup (IF result.error = <<"Column renaming failed">>
                              THEN {"error: column new-price not found"}
                              ELSE {}),
                        <<result>>)
    /\ UNCHANGED file

\* Lines 72-142 when a slider was not created: its name is unbound and the
\* mask of lines 138-142 raises NameError, which nothing catches.
RunFilterRaises ==
    /\ file.kind \notin {"missing", "empty"}
    /\ LET result == load_data(file, cache)
       IN  /\ ~Truthy(result.error) /\ ~IsNa(result.df)
           /\ cache' = <<result>>
           /\ loaded' = <<result>>
           /\ LET df == result.df[1]
              IN  /\ SliderErrors(df) # {}
                  /\ \E sel \in Selections(df) :
                        /\ selected_years' = sel[1]
                        /\ selected_price' = sel[2]
                        /\ selected_volume' = sel[3]
                  /\ messages' = Diagnostics(df) \cup SliderErrors(df)
    /\ outcome' = "NameError"
    /\ filtered_df' = Unbound
    /\ category_counts' = Unbound
    /\ top_market_cap' = Unbound
    /\ top_sales_volume' = Unbound
    /\ top_price' = Unbound
    /\ UNCHANGED file

\* Lines 72-146: the filters leave no row.
RunNoMatch ==
    /\ file.kind \notin {"missing", "empty"}
    /\ LET result == load_data(file, cache)
       IN  /\ ~Truthy(result.error) /\ ~IsNa(result.df)
           /\ cache' = <<result>>
           /\ loaded' = <<result>>
           /\ LET df == result.df[1]
              IN  /\ SliderErrors(df) = {}
                  /\ \E sel \in Selections(df) :
                        /\ ApplyFilters(df, sel[1], sel[2], sel[3]) = <<>>
                        /\ selected_years' = sel[1]
                        /\ selected_price' = sel[2]
                        /\ selected_volume' = sel[3]
                  /\ messages' = Diagnostics(df) \cup {"info: no data matches"}
    /\ outcome' = "no match"
    /\ filtered_df' = << <<>> >>
    /\ category_counts' = Unbound
    /\ top_market_cap' = Unbound
    /\ top_sales_volume' = Unbound
    /\ top_price' = Unbound
    /\ UNCHANGED file

\* Lines 72-172: the filters leave rows and the views are computed.
RunDashboard ==
    /\ file.kind \notin {"missing", "empty"}
    /\ LET result == load_data(file, cache)
       IN  /\ ~Truthy(result.error) /\ ~IsNa(result.df)
           /\ cache' = <<result>>
           /\ loaded' = <<result>>
           /\ LET df == result.df[1]
              IN  /\ SliderErrors(df) = {}
                  /\ \E sel \in Selections(df) :
                        LET fdf == ApplyFilters(df, sel[1], sel[2], sel[3])
                        IN  /\ fdf # <<>>
                            /\ selected_years' = sel[1]
                            /\ selected_price' = sel[2]
                            /\ selected_volume' = sel[3]
                            /\ filtered_df' = <<fdf>>
                            /\ category_counts' = <<value_counts(fdf)>>
                            /\ top_market_cap' = <<TopMarketCap(fdf)>>
                            /\ top_sales_volume' = <<TopSalesVolume(fdf)>>
                            /\ top_price' = <<TopPrice(fdf)>>
                  /\ messages' = Diagnostics(df)
    /\ outcome' = "dashboard"
    /\ UNCHANGED file

\* The file at the path is replaced, removed or truncated from outside.
WriteFile ==
    /\ \E f \in Edits : f # file /\ file' = f
    /\ UNCHANGED <<cache, outcome, messages, loaded, selected_years,
                   selected_price, selected_volume, filtered_df,
                   category_counts, top_market_cap, top_sales_volume,
                   top_price>>

Init ==
    /\ file \in Files
    /\ cache = <<>>
    /\ outcome = "not run"
    /\ messages = {}
    /\ loaded = Unbound
    /\ selected_years = Unbound
    /\ selected_price = Unbound
    /\ selected_volume = Unbound
    /\ filtered_df = Unbound
    /\ category_counts = Unbound
    /\ top_market_cap = Unbound
    /\ top_sales_volume = Unbound
    /\ top_price = Unbound

Next ==
    \/ RunFileNotFound
    \/ RunFileEmpty
    \/ RunLoadFails
    \/ RunFilterRaises
    \/ RunNoMatch
    \/ RunDashboard
    \/ WriteFile

Spec == Init /\ [][Next]_vars

-----------------------------------------------------------------------------
(* Vocabulary of the properties *)

\* The last run called load_data, and what it got.
CalledLoad == loaded # Unbound

LoadOk == CalledLoad /\ ~IsNa(loaded[1].df)

\* The last run's result is what the file's present contents normalize to.
FreshLoad == CalledLoad /\ loaded[1] = load_data_body(file)

\* The last run evaluated the mask of lines 138-142 to the end.
FiltersApplied == filtered_df # Unbound

\* x is present and lies in the closed interval range.
InClosedRange(x, range) ==
    x # <<>> /\ range[1] <= x[1] /\ x[1] <= range[2]

IsIn(r, rows) == \E i \in 1..Len(rows) : rows[i] = r

\* C1: in every run that applied the filters, whatever include_unknown_years
\* is, a row whose price and volume are in range is in filtered_df exactly
\* when its release year is in the selected range, or is null while
\* include_unknown_years is true.
C1_YearMembership ==
    FiltersApplied =>
        \A include_unknown_years \in BOOLEAN :
            \A i \in 1..Len(loaded[1].df[1]) :
                LET r == loaded[1].df[1][i]
                IN  (/\ InClosedRange(r.Avg_eBay_Sell_Price, selected_price)
                     /\ InClosedRange(r.Sales_Volume, selected_volume))
                    => (IsIn(r, filtered_df[1])
                        <=> \/ include_unknown_years /\ IsNa(r.Release_Year)
                            \/ InClosedRange(r.Release_Year, selected_years))

\* C2: a run whose loaded frame has no price at all or no volume at all
\* reports it and stops before the filters: it neither applies them nor
\* ends in an uncaught error.
C2_AllMissingRefuses ==
    (/\ LoadOk
     /\ \/ dropna(loaded[1].df[1], "Avg. eBay Sell Price") = {}
        \/ dropna(loaded[1].df[1], "Sales Volume") = {})
    => /\ messages \cap {"error: all prices missing",
                         "error: all volumes missing"} # {}
       /\ outcome \notin {"NameError", "no match", "dashboard"}

\* C3: every row of the file whose sales volume coerces to null is a row of
\* the frame load_data returns for that file.
C3_NullVolumeRetained ==
    (LoadOk /\ FreshLoad) =>
        \A i \in 1..Len(file.rows) :
            IsNa(to_numeric(Cell(file.header, file.rows[i], "Sales Volume"),
                            VolumePlaces))
            => \E j \in 1..Len(loaded[1].df[1]) : loaded[1].df[1][j].Index = i

\* C4: in every run that applied the filters, each row of filtered_df has a
\* price and a volume that are present and within the selected closed
\* ranges, a row of df within all three closed ranges (a bound included) is
\* in filtered_df, and filtered_df lists rows of df in df's order.
C4_PriceVolumeMembership ==
    FiltersApplied =>
        LET df == loaded[1].df[1]
            fdf == filtered_df[1]
        IN  /\ \A i \in 1..Len(fdf) :
                  /\ InClosedRange(fdf[i].Avg_eBay_Sell_Price, selected_price)
                  /\ InClosedRange(fdf[i].Sales_Volume, selected_volume)
                  /\ IsIn(fdf[i], df)
            /\ \A i \in 1..Len(df) :
                  (/\ InClosedRange(df[i].Release_Year, selected_years)
                   /\ InClosedRange(df[i].Avg_eBay_Sell_Price, selected_price)
                   /\ InClosedRange(df[i].Sales_Volume, selected_volume))
                  => IsIn(df[i], fdf)
            /\ \A i, j \in 1..Len(fdf) : i < j => fdf[i].Index < fdf[j].Index

\* A run kept at least two rows, one of them with its price on the lower
\* bound, and dropped a row of df that has no price.
C4_Witness ==
    /\ outcome = "dashboard"
    /\ Len(filtered_df[1]) >= 2
    /\ \E i \in 1..Len(filtered_df[1]) :
          filtered_df[1][i].Avg_eBay_Sell_Price[1] = selected_price[1]
    /\ \E i \in 1..Len(loaded[1].df[1]) :
          /\ IsNa(loaded[1].df[1][i].Avg_eBay_Sell_Price)
          /\ ~IsIn(loaded[1].df[1][i], filtered_df[1])

\* None of the names a run binds after a successful load is bound.
NothingBoundAfterLoad ==
    /\ selected_years = Unbound /\ selected_price = Unbound
    /\ selected_volume = Unbound /\ filtered_df = Unbound
    /\ category_counts = Unbound /\ top_market_cap = Unbound
    /\ top_sales_volume = Unbound /\ top_price = Unbound

\* The messages of the steps that follow a successful load.
AfterLoadMessages ==
    {"error: all prices missing", "warning: some prices missing",
     "error: all volumes missing", "warning: some volumes missing",
     "warning: some dates invalid", "error: no valid years",
     "error: no valid prices", "error: no valid volumes",
     "info: no data matches"}

\* C5: load_data run on a file that has no column for the price (new-price,
\* or its equivalent already named Avg. eBay Sell Price) returns an error
\* and no frame; and a run whose load_data returns no frame reports the
\* error and ends there, with no diagnostic, slider, filter or view.
C5_MissingPriceColumnAborts ==
    /\ (/\ FreshLoad
        /\ file.kind = "csv"
        /\ ColumnsNamed(file.header, "Avg. eBay Sell Price") = {})
       => /\ IsNa(loaded[1].df)
          /\ Truthy(loaded[1].error)
    /\ (CalledLoad /\ (IsNa(loaded[1].df) \/ Truthy(loaded[1].error)))
       => /\ outcome = "load failed"
          /\ NothingBoundAfterLoad
          /\ messages \cap AfterLoadMessages = {}
          /\ \E m \in messages : m = "error: loading or processing data"

\* A run called load_data on a file that has rows and no price column.
C5_Witness ==
    /\ FreshLoad
    /\ file.kind = "csv"
    /\ Len(file.rows) > 0
    /\ ColumnsNamed(file.header, "Avg. eBay Sell Price") = {}
    /\ outcome = "load failed"

\* C6: no row of a frame returned by load_data has a present sales volume
\* of 1 or less.
C6_BaselineExclusion ==
    LoadOk =>
        \A i \in 1..Len(loaded[1].df[1]) :
            \/ IsNa(loaded[1].df[1][i].Sales_Volume)
            \/ loaded[1].df[1][i].Sales_Volume[1] > 1 * VolumeUnit

\* load_data returned rows of a file holding a row of volume 1 or less.
C6_Witness ==
    /\ LoadOk /\ FreshLoad
    /\ Len(loaded[1].df[1]) > 0
    /\ \E i \in 1..Len(file.rows) :
          LET v == to_numeric(Cell(file.header, file.rows[i], "Sales Volume"),
                              VolumePlaces)
          IN  ~IsNa(v) /\ v[1] <= 1 * VolumeUnit

\* The top list `top` of the frame fdf by column `by`: as long as the lesser
\* of 10 and the rows of fdf with that column present, rows of fdf, in
\* descending order, none smaller than a present row left out.
IsTopTen(top, fdf, by) ==
    LET present == {i \in 1..Len(fdf) : ~IsNa(Column(fdf[i], by))}
    IN  /\ Len(top) = Min(10, Cardinality(present))
        /\ \A i \in 1..Len(top) : IsIn(top[i], fdf)
        /\ \A i, j \in 1..Len(top) :
              i < j => Column(top[i], by)[1] >= Column(top[j], by)[1]
        /\ \A i \in present :
              ~IsIn(fdf[i], top)
              => \A j \in 1..Len(top) :
                    Column(top[j], by)[1] >= Column(fdf[i], by)[1]

\* C7: in every run that shows the views, each of the three top lists is
\* the top ten of filtered_df by its column.
C7_TopTen ==
    outcome = "dashboard" =>
        /\ IsTopTen(top_market_cap[1], filtered_df[1], "Market Capitalization")
        /\ IsTopTen(top_sales_volume[1], filtered_df[1], "Sales Volume")
        /\ IsTopTen(top_price[1], filtered_df[1], "Avg. eBay Sell Price")

\* A run showed top lists cut to ten rows out of more.
C7_Witness ==
    /\ outcome = "dashboard"
    /\ Len(filtered_df[1]) > 10
    /\ Len(top_market_cap[1]) = 10
    /\ Len(top_sales_volume[1]) = 10
    /\ Len(top_price[1]) = 10

\* The closed intervals over `stops` and one step beyond that contain range.
Wider(range, stops) ==
    LET ends == stops \cup {SetMin(stops) - 1, SetMax(stops) + 1}
    IN  {w \in ends \X ends : w[1] <= range[1] /\ range[2] <= w[2]}

ContainsAll(rows, sub) == \A i \in 1..Len(sub) : IsIn(sub[i], rows)

\* C8: in every run that applied the filters, replacing one of the three
\* selected ranges by an interval that contains it, the other two kept,
\* gives a filtered frame that has every row of filtered_df.
C8_Monotone ==
    FiltersApplied =>
        LET df == loaded[1].df[1]
            fdf == filtered_df[1]
        IN  /\ \A w \in Wider(selected_years, dropna(df, "Release Year")) :
                  ContainsAll(ApplyFilters(df, w, selected_price,
                                           selected_volume), fdf)
            /\ \A w \in Wider(selected_price,
                              dropna(df, "Avg. eBay Sell Price")) :
                  ContainsAll(ApplyFilters(df, selected_years, w,
                                           selected_volume), fdf)
            /\ \A w \in Wider(selected_volume, dropna(df, "Sales Volume")) :
                  ContainsAll(ApplyFilters(df, selected_years,
                                           selected_price, w), fdf)

\* A run kept some rows, and a wider year range would keep more.
C8_Witness ==
    /\ outcome = "dashboard"
    /\ \E w \in Wider(selected_years,
                      dropna(loaded[1].df[1], "Release Year")) :
          Len(ApplyFilters(loaded[1].df[1], w, selected_price,
                           selected_volume)) > Len(filtered_df[1])

\* The cell has the shape of a date: four digits, one or two, one or two,
\* separated by "-".
DateShaped(s) ==
    \E a, b \in 1..Len(s) :
        /\ a = 5 /\ b \in {a + 2, a + 3} /\ Len(s) \in {b + 1, b + 2}
        /\ s[a] = "-" /\ s[b] = "-"
        /\ \A i \in 1..Len(s) : i \notin {a, b} => s[i] \in Digits

\* C9: in every frame load_data returns, a row's release year is null
\* exactly when its release date is, and is the date's year otherwise; for
\* a frame just computed from the file, a row whose release-date cell is
\* not shaped as a date has both null, whatever the file holds under
\* Release Year; and a file with the expected columns loads whatever its
\* dates.
C9_DerivedYear ==
    /\ (FreshLoad /\ file.kind = "csv"
        /\ file.header \in {FullHeader, FullHeader \cup {"Release Year"}})
       => LoadOk
    /\ LoadOk =>
          \A i \in 1..Len(loaded[1].df[1]) :
              LET r == loaded[1].df[1][i]
              IN  /\ IsNa(r.Release_Year) <=> IsNa(r.Release_Date)
                  /\ ~IsNa(r.Release_Date)
                     => r.Release_Year = <<r.Release_Date[1][1]>>
                  /\ (FreshLoad /\ ~DateShaped(Cell(file.header,
                                                    file.rows[r.Index],
                                                    "Release Date")))
                     => IsNa(r.Release_Date) /\ IsNa(r.Release_Year)

\* load_data returned, for a file that has a Release Year column of its
\* own, a row with a date and a row whose date cell is no date.
C9_Witness ==
    /\ LoadOk /\ FreshLoad
    /\ "Release Year" \in file.header
    /\ \E i \in 1..Len(loaded[1].df[1]) :
          ~IsNa(loaded[1].df[1][i].Release_Year)
    /\ \E i \in 1..Len(loaded[1].df[1]) :
          /\ IsNa(loaded[1].df[1][i].Release_Date)
          /\ ~DateShaped(Cell(file.header,
                              file.rows[loaded[1].df[1][i].Index],
                              "Release Date"))

\* C10: every run that calls load_data gets what normalizing the file's
\* contents at that moment gives.
C10_CacheFaithful ==
    [][(file' = file /\ loaded' # Unbound)
       => loaded'[1] = load_data_body(file)]_vars

====
